---- MODULE Spec2Model ----
(***************************************************************************)
(* axum-valid: the Valid<E> wrapper around an extractor E.                 *)
(*                                                                         *)
(* Two routes are modelled, one per source file:                           *)
(*   "custom"  tests/custom.rs  Valid<MyData>, MyData read from the        *)
(*             My-Data header as JSON;                                     *)
(*   "query"   src/query.rs     Valid<Query<Parameter>>, the documented    *)
(*             example, Parameter read from the query string.              *)
(* Every request runs in its own task: receive, inner extraction (the      *)
(* only await point), validation with construction of the wrapper or the   *)
(* rejection, handler.                                                     *)
(***************************************************************************)
EXTENDS Integers, Sequences, FiniteSets, TLC

\* ---------------------------------------------------------------- bounds
MaxRequests == 2
MaxContentLen == 11

\* ------------------------------------------------------ program constants
\* #[validate(length(min = 1, max = 10))] on MyData.content and Parameter.v1
LENGTH_MIN == 1
LENGTH_MAX == 10
\* #[validate(range(min = 5, max = 10))] on Parameter.v0
RANGE_MIN == 5
RANGE_MAX == 10
\* StatusCode::OK, BAD_REQUEST, INTERNAL_SERVER_ERROR
OK == 200
BAD_REQUEST == 400
INTERNAL_SERVER_ERROR == 500
\* i32::MAX
I32_MAX == 2147483647

MY_DATA_HEADER == "My-Data"

Requests == 1..MaxRequests
Routes == {"custom", "query"}

\* ------------------------------------------------------------- strings
\* A string is a sequence of one-character strings.
Rep(c, n) == [k \in 1..n |-> c]

Hello == <<"h", "e", "l", "l", "o">>
KeyContent == <<"c", "o", "n", "t", "e", "n", "t">>
KeyOther == <<"x">>

\* The contents sent: the boundaries of the length rule, and "hello".
Lengths == {0, LENGTH_MIN, LENGTH_MAX, MaxContentLen}
Contents == {Rep("a", n) : n \in Lengths} \cup {Hello}

\* ------------------------------------------------------- Result values
Ok(v) == [ok |-> TRUE, val |-> v]
Err(e) == [ok |-> FALSE, err |-> e]
NoValue == [none |-> TRUE]

\* ------------------------------------------------------ JSON (serde_json)
\* The bytes of a header value, as the tokens serde_json reads.
Tok(t) == [t |-> t, s |-> <<>>]
Str(s) == [t |-> "str", s |-> s]
LBrace == Tok("lbrace")
RBrace == Tok("rbrace")
Colon == Tok("colon")
Comma == Tok("comma")

\* struct MyData { content: String }
MyData(content) == [content |-> content]

\* serde_json::to_string(&my_data)
to_string(data) == <<LBrace, Str(KeyContent), Colon, Str(data.content), RBrace>>

RECURSIVE ParseMembers(_, _, _)
RECURSIVE AfterValue(_, _, _)
\* The members of an object from position p on; found is <<>> or <<content>>.
ParseMembers(toks, p, found) ==
    IF p + 2 > Len(toks) THEN
        IF p <= Len(toks) /\ toks[p].t # "str" THEN Err("key must be a string")
        ELSE IF p + 1 <= Len(toks) /\ toks[p + 1].t # "colon" THEN Err("expected :")
        ELSE Err("EOF while parsing")
    ELSE IF toks[p].t # "str" THEN Err("key must be a string")
    ELSE IF toks[p + 1].t # "colon" THEN Err("expected :")
    ELSE IF toks[p + 2].t # "str" THEN
        IF toks[p].s = KeyContent THEN Err("invalid type, expected a string")
        ELSE Err("expected value")
    ELSE IF toks[p].s = KeyContent THEN
        IF found # <<>> THEN Err("duplicate field content")
        ELSE AfterValue(toks, p + 3, <<toks[p + 2].s>>)
    ELSE AfterValue(toks, p + 3, found)

AfterValue(toks, p, found) ==
    IF p > Len(toks) THEN Err("EOF while parsing")
    ELSE IF toks[p].t = "comma" THEN ParseMembers(toks, p + 1, found)
    ELSE IF toks[p].t # "rbrace" THEN Err("expected , or }")
    ELSE IF found = <<>> THEN Err("missing field content")
    ELSE IF p < Len(toks) THEN Err("trailing characters")
    ELSE Ok(MyData(found[1]))

\* serde_json::from_slice::<MyData>(bytes)
from_slice(toks) ==
    IF toks = <<>> THEN Err("EOF while parsing")
    ELSE IF toks[1].t # "lbrace" THEN Err("invalid type, expected struct MyData")
    ELSE IF Len(toks) >= 2 /\ toks[2].t = "rbrace" THEN AfterValue(toks, 2, <<>>)
    ELSE ParseMembers(toks, 2, <<>>)

\* ------------------------------------------ rejections and responses
\* enum MyDataRejection { Null, InvalidJson(serde_json::error::Error) }
Null == [tag |-> "Null", e |-> ""]
InvalidJson(e) == [tag |-> "InvalidJson", e |-> e]
\* axum's QueryRejection::FailedToDeserializeQueryString
FailedToDeserializeQueryString(e) == [tag |-> "FailedToDeserializeQueryString", e |-> e]
NoInner == [tag |-> "", e |-> ""]

\* enum ValidRejection<E> { Valid(ValidationErrors), Inner(E) }
ValidRejection_Valid(errors) == [variant |-> "Valid", inner |-> NoInner, errors |-> errors]
ValidRejection_Inner(value) == [variant |-> "Inner", inner |-> value, errors |-> {}]
NoRejection == [variant |-> "", inner |-> NoInner, errors |-> {}]

Response(status, msg, e, errors) == [status |-> status, msg |-> msg, e |-> e, errors |-> errors]
NoResponse == Response(0, "", "", {})

\* impl IntoResponse for MyDataRejection
MyDataRejection_into_response(self) ==
    IF self.tag = "Null"
    THEN Response(BAD_REQUEST, "My-Data header is missing", "", {})
    ELSE Response(BAD_REQUEST, "My-Data is not valid json string: ", self.e, {})

\* impl IntoResponse for QueryRejection (axum)
QueryRejection_into_response(self) ==
    Response(BAD_REQUEST, "Failed to deserialize query string: ", self.e, {})

\* impl IntoResponse for ValidRejection<E>
ValidRejection_into_response(self) ==
    IF self.variant = "Valid"
    THEN Response(BAD_REQUEST, "Validation error: ", "", self.errors)
    ELSE IF self.inner.tag \in {"Null", "InvalidJson"}
    THEN MyDataRejection_into_response(self.inner)
    ELSE QueryRejection_into_response(self.inner)

\* A conversion that loses the extractor's rejection.
from_as_validation(value) == ValidRejection_Valid({})

\* impl From<MyDataRejection> for ValidRejection<MyDataRejection>
from(value) == ValidRejection_Inner(value)

\* ------------------------------------------------- the custom extractor
\* A request's headers: the My-Data header is absent or holds bytes.
NoHeader == [present |-> FALSE, value |-> <<>>]
Header(value) == [present |-> TRUE, value |-> value]

\* impl FromRequestParts for MyData
MyData_from_request_parts(parts) ==
    IF ~parts.present THEN Err(Null)
    ELSE LET r == from_slice(parts.value)
         IN  IF r.ok THEN r ELSE Err(InvalidJson(r.err))

\* The length rule with its upper bound excluded.
MyData_errors_exclusive(self) ==
    IF Len(self.content) >= LENGTH_MIN /\ Len(self.content) < LENGTH_MAX
    THEN {}
    ELSE {<<"content", "length">>}

\* #[derive(Validate)] struct MyData: the errors of content's length rule
MyData_errors(self) ==
    IF Len(self.content) >= LENGTH_MIN /\ Len(self.content) <= LENGTH_MAX
    THEN {}
    ELSE {<<"content", "length">>}

\* MyData::validate
MyData_validate(self) ==
    IF MyData_errors(self) = {} THEN Ok({}) ELSE Err(MyData_errors(self))

\* An accessor that hands out a fresh value instead of the extracted one.
MyData_get_validate_fresh(self) == MyData(Hello)

\* impl HasValidate for MyData
MyData_get_validate(self) == self

\* -------------------------------------------------- the Query extractor
\* struct Parameter { v0: i32, v1: String }
Parameter(v0, v1) == [v0 |-> v0, v1 |-> v1]
\* struct Query<T>(pub T)
Query(t) == [field0 |-> t]

Digits == <<"0", "1", "2", "3", "4", "5", "6", "7", "8", "9">>
DigitOf(c) == (CHOOSE d \in 1..10 : Digits[d] = c) - 1
IsDigit(c) == \E d \in 1..10 : Digits[d] = c

RECURSIVE FormatNat(_)
FormatNat(n) == IF n < 10 THEN <<Digits[n + 1]>> ELSE Append(FormatNat(n \div 10), Digits[(n % 10) + 1])
\* i32 as Display
FormatI32(n) == IF n < 0 THEN <<"-">> \o FormatNat(0 - n) ELSE FormatNat(n)

\* The largest magnitude acc for which acc * 10 + d still fits an i32.
Limit(neg, d) ==
    IF ~neg THEN (I32_MAX - d) \div 10
    ELSE IF d = 0 THEN I32_MAX \div 10
    ELSE ((I32_MAX - d) + 1) \div 10

RECURSIVE ParseDigits(_, _, _)
\* the digits of s from the left; acc is the value read so far, negated when neg
ParseDigits(s, neg, acc) ==
    IF s = <<>> THEN Ok(acc)
    ELSE IF ~IsDigit(Head(s)) THEN Err("invalid digit found in string")
    ELSE IF neg
    THEN IF (0 - acc) > Limit(neg, DigitOf(Head(s)))
         THEN Err("number too small to fit in target type")
         ELSE ParseDigits(Tail(s), neg, acc * 10 - DigitOf(Head(s)))
    ELSE IF acc > Limit(neg, DigitOf(Head(s)))
         THEN Err("number too large to fit in target type")
         ELSE ParseDigits(Tail(s), neg, acc * 10 + DigitOf(Head(s)))

\* str::parse::<i32>
ParseI32(s) ==
    IF s = <<>> THEN Err("cannot parse integer from empty string")
    ELSE IF s = <<"-">> \/ s = <<"+">> THEN Err("invalid digit found in string")
    ELSE IF Head(s) = "-" THEN ParseDigits(Tail(s), TRUE, 0)
    ELSE IF Head(s) = "+" THEN ParseDigits(Tail(s), FALSE, 0)
    ELSE ParseDigits(s, FALSE, 0)

\* One key=value pair of a query string.
Pair(k, v) == [k |-> k, v |-> v]
ValuesOf(qs, k) == SelectSeq(qs, LAMBDA p : p.k = k)

\* RequestBuilder::query(&parameter): serde_urlencoded of a Parameter
ToQuery(parameter) == <<Pair("v0", FormatI32(parameter.v0)), Pair("v1", parameter.v1)>>

\* impl FromRequestParts for Query<Parameter> (axum, serde_urlencoded)
Query_from_request_parts(qs) ==
    LET a == ValuesOf(qs, "v0")
        b == ValuesOf(qs, "v1")
    IN  IF Len(a) > 1 THEN Err(FailedToDeserializeQueryString("duplicate field v0"))
        ELSE IF Len(b) > 1 THEN Err(FailedToDeserializeQueryString("duplicate field v1"))
        ELSE IF Len(a) = 1 /\ ~ParseI32(a[1].v).ok
             THEN Err(FailedToDeserializeQueryString(ParseI32(a[1].v).err))
        ELSE IF Len(a) = 0 THEN Err(FailedToDeserializeQueryString("missing field v0"))
        ELSE IF Len(b) = 0 THEN Err(FailedToDeserializeQueryString("missing field v1"))
        ELSE Ok(Query(Parameter(ParseI32(a[1].v).val, b[1].v)))

\* #[derive(Validate)] struct Parameter: the errors of the two rules
Parameter_errors(self) ==
    (IF self.v0 >= RANGE_MIN /\ self.v0 <= RANGE_MAX THEN {} ELSE {<<"v0", "range">>})
    \cup
    (IF Len(self.v1) >= LENGTH_MIN /\ Len(self.v1) <= LENGTH_MAX THEN {} ELSE {<<"v1", "length">>})

\* Parameter::validate
Parameter_validate(self) ==
    IF Parameter_errors(self) = {} THEN Ok({}) ELSE Err(Parameter_errors(self))

\* Accessors that hand out a fresh value instead of the wrapped field.
Query_get_validate_fresh(self) == Parameter(RANGE_MIN, Rep("a", LENGTH_MIN))
Query_get_validate_args_fresh(self) == Parameter(RANGE_MIN, Rep("a", LENGTH_MIN))

\* impl<T> HasValidate for Query<T>
Query_get_validate(self) == self.field0

\* impl<'v, T: ValidateArgs<'v>> HasValidateArgs<'v> for Query<T>
Query_get_validate_args(self) == self.field0

\* ------------------------------------------------------------ requests
\* The parts of a request the two extractors read.
Parts(header, query) == [header |-> header, query |-> query]
NoParts == Parts(NoHeader, <<>>)

V0Samples == {RANGE_MIN - 1, RANGE_MIN, RANGE_MAX, RANGE_MAX + 1}
V1Samples == {Rep("a", n) : n \in Lengths}
\* valid(), invalid(): each rule at its boundaries with the other satisfied,
\* and both rules broken
Parameters ==
    {Parameter(n, Rep("a", LENGTH_MIN)) : n \in V0Samples}
    \cup {Parameter(RANGE_MIN, s) : s \in V1Samples}
    \cup {Parameter(RANGE_MIN - 1, <<>>)}

\* {"x":"","content":"hello"}: an unknown field before the content
WithOtherField ==
    <<LBrace, Str(KeyOther), Colon, Str(<<>>), Comma,
      Str(KeyContent), Colon, Str(Hello), RBrace>>

\* tests/custom.rs main: the headers a client sends
CustomInputs ==
    {Parts(NoHeader, <<>>)}
    \cup {Parts(Header(to_string(MyData(c))), <<>>) : c \in Contents}
    \cup {Parts(Header(<<LBrace, LBrace, RBrace>>), <<>>),
          Parts(Header(<<LBrace, RBrace>>), <<>>),
          Parts(Header(<<LBrace, Str(KeyContent), Colon, Str(Hello)>>), <<>>),
          Parts(Header(WithOtherField), <<>>)}

\* src/query.rs tests: set_valid_request, set_invalid_request, set_error_request
QueryInputs ==
    {Parts(NoHeader, ToQuery(p)) : p \in Parameters}
    \cup {Parts(NoHeader, <<Pair("error", <<"e">>)>>),
          Parts(NoHeader, <<Pair("v0", <<"x">>), Pair("v1", <<"a">>)>>),
          Parts(NoHeader, <<Pair("v0", <<"5">>)>>)}

Inputs(r) == IF r = "custom" THEN CustomInputs ELSE QueryInputs

\* ------------------------------------------------- dispatch on the route
\* E::from_request_parts(parts, state)
from_request_parts(r, parts) ==
    IF r = "custom" THEN MyData_from_request_parts(parts.header)
    ELSE Query_from_request_parts(parts.query)

\* HasValidate::get_validate
get_validate(r, e) ==
    IF r = "custom" THEN MyData_get_validate(e) ELSE Query_get_validate(e)

\* HasValidateArgs::get_validate_args, implemented for Query<T>
get_validate_args(r, e) == Query_get_validate_args(e)

\* Validate::validate
validate(r, v) ==
    IF r = "custom" THEN MyData_validate(v) ELSE Parameter_validate(v)

\* struct Valid<E>(pub E)
Valid(e) == [field0 |-> e]

\* A handler that is handed default values instead of the wrapped ones.
Destructure_default(r, a) ==
    IF r = "custom" THEN MyData(<<>>) ELSE Parameter(0, <<>>)

\* The pattern of the handler's parameter: Valid(my_data), Valid(Query(parameter))
Destructure(r, a) ==
    IF r = "custom" THEN a.field0 ELSE a.field0.field0

\* ---------------------------------------------------------------- state
VARIABLES
    route,          \* the route the router serves
    pc,             \* per request: idle, extract, handler, done
    parts,          \* per request: the request parts received
    inner,          \* per request: the value the inner extractor returned
    validated,      \* per request: the value validate was called on
    arg,            \* per request: the wrapper handed to the handler
    refs,           \* per request: the references the accessors returned
    my_data,        \* per request: the value the handler destructured
    rejection,      \* per request: the wrapper's rejection
    response,       \* per request: the response sent
    extractCalls,   \* per request: calls of the inner extractor
    validateCalls,  \* per request: calls of validate by the wrapper
    handlerCalls    \* per request: calls of the handler

vars == <<route, pc, parts, inner, validated, arg, refs, my_data, rejection,
          response, extractCalls, validateCalls, handlerCalls>>

NoRefs == [v |-> NoValue, args |-> NoValue]

\* ------------------------------------------------------------ handlers
\* A handler with a counter shared by all requests: only its first call succeeds.
MyData_handler_once(data) ==
    IF MyData_validate(data).ok /\ \A j \in Requests : handlerCalls[j] = 0
    THEN Response(OK, "", "", {})
    ELSE Response(INTERNAL_SERVER_ERROR, "", "", {})

\* async fn handler(Valid(my_data): Valid<MyData>) -> StatusCode
MyData_handler(data) ==
    IF MyData_validate(data).ok
    THEN Response(OK, "", "", {})
    ELSE Response(INTERNAL_SERVER_ERROR, "", "", {})

\* async fn handler(Valid(Query(parameter)): Valid<Query<Parameter>>)
Panicked == Response(0, "assertion failed: parameter.validate().is_ok()", "", {})
Query_handler(parameter) ==
    IF Parameter_validate(parameter).ok
    THEN Response(OK, "", "", {})
    ELSE Panicked

\* ------------------------------------------------------------- actions
Init ==
    /\ route \in Routes
    /\ pc = [i \in Requests |-> "idle"]
    /\ parts = [i \in Requests |-> NoParts]
    /\ inner = [i \in Requests |-> NoValue]
    /\ validated = [i \in Requests |-> NoValue]
    /\ arg = [i \in Requests |-> NoValue]
    /\ refs = [i \in Requests |-> NoRefs]
    /\ my_data = [i \in Requests |-> NoValue]
    /\ rejection = [i \in Requests |-> NoRejection]
    /\ response = [i \in Requests |-> NoResponse]
    /\ extractCalls = [i \in Requests |-> 0]
    /\ validateCalls = [i \in Requests |-> 0]
    /\ handlerCalls = [i \in Requests |-> 0]

\* The router dispatches a request in a task of its own:
\* Valid::<E>::from_request_parts is called and awaits the inner extractor.
Receive(i) ==
    /\ pc[i] = "idle"
    /\ \E p \in Inputs(route) : parts' = [parts EXCEPT ![i] = p]
    /\ pc' = [pc EXCEPT ![i] = "extract"]
    /\ UNCHANGED <<route, inner, validated, arg, refs, my_data, rejection,
                   response, extractCalls, validateCalls, handlerCalls>>

\* Valid::from_request_parts, resumed with the inner extractor's result:
\*   let inner = E::from_request_parts(parts, state).await.map_err(From::from)?;
\*   inner.get_validate().validate()?;
\*   Ok(Valid(inner))
\* A rejection is turned into the response at once.
Valid_from_request_parts(i) ==
    /\ pc[i] = "extract"
    /\ extractCalls' = [extractCalls EXCEPT ![i] = @ + 1]
    /\ LET r == from_request_parts(route, parts[i])
       IN  IF ~r.ok
           THEN /\ rejection' = [rejection EXCEPT ![i] = from(r.err)]
                /\ response' = [response EXCEPT ![i] = ValidRejection_into_response(from(r.err))]
                /\ pc' = [pc EXCEPT ![i] = "done"]
                /\ UNCHANGED <<inner, validated, validateCalls, arg>>
           ELSE /\ inner' = [inner EXCEPT ![i] = r.val]
                /\ validated' = [validated EXCEPT ![i] = get_validate(route, r.val)]
                /\ validateCalls' = [validateCalls EXCEPT ![i] = @ + 1]
                /\ LET v == validate(route, get_validate(route, r.val))
                   IN  IF v.ok
                       THEN /\ arg' = [arg EXCEPT ![i] = Valid(r.val)]
                            /\ pc' = [pc EXCEPT ![i] = "handler"]
                            /\ UNCHANGED <<rejection, response>>
                       ELSE /\ rejection' = [rejection EXCEPT ![i] = ValidRejection_Valid(v.err)]
                            /\ response' = [response EXCEPT ![i] =
                                   ValidRejection_into_response(ValidRejection_Valid(v.err))]
                            /\ pc' = [pc EXCEPT ![i] = "done"]
                            /\ UNCHANGED arg
    /\ UNCHANGED <<route, parts, refs, my_data, handlerCalls>>

\* The holder of the extractor borrows the data to validate through the
\* capability traits: get_validate, and for Query<T> get_validate_args.
Borrow(i) ==
    /\ pc[i] = "handler"
    /\ refs' = [refs EXCEPT ![i] =
                   [v |-> get_validate(route, arg[i].field0),
                    args |-> IF route = "query"
                             THEN get_validate_args(route, arg[i].field0)
                             ELSE NoValue]]
    /\ UNCHANGED <<route, pc, parts, inner, validated, arg, my_data, rejection,
                   response, extractCalls, validateCalls, handlerCalls>>

\* The handler of the route, called with the wrapper; the borrows have ended.
handler(i) ==
    /\ pc[i] = "handler"
    /\ handlerCalls' = [handlerCalls EXCEPT ![i] = @ + 1]
    /\ my_data' = [my_data EXCEPT ![i] = Destructure(route, arg[i])]
    /\ response' = [response EXCEPT ![i] =
           IF route = "custom"
           THEN MyData_handler(Destructure(route, arg[i]))
           ELSE Query_handler(Destructure(route, arg[i]))]
    /\ refs' = [refs EXCEPT ![i] = NoRefs]
    /\ pc' = [pc EXCEPT ![i] = "done"]
    /\ UNCHANGED <<route, parts, inner, validated, arg, rejection,
                   extractCalls, validateCalls>>

Next ==
    \E i \in Requests :
        \/ Receive(i)
        \/ Valid_from_request_parts(i)
        \/ Borrow(i)
        \/ handler(i)

Spec == Init /\ [][Next]_vars

\* ---------------------------------------------------------- properties
\* The data an extractor value carries.
DataOf(e) == IF route = "custom" THEN e ELSE e.field0

\* What the inner extractor produces for request i on its own.
Native(i) == from_request_parts(route, parts[i])

\* The response of the inner extractor's own rejection.
NativeResponse(rej) ==
    IF route = "custom" THEN MyDataRejection_into_response(rej)
    ELSE QueryRejection_into_response(rej)

\* The inner extractor ran for request i and extraction or validation failed.
Failed(i) ==
    /\ extractCalls[i] > 0
    /\ \/ ~Native(i).ok
       \/ ~validate(route, DataOf(Native(i).val)).ok

\* Everything the model holds about request i.
ReqState(i) ==
    <<pc[i], parts[i], inner[i], validated[i], arg[i], refs[i], my_data[i],
      rejection[i], response[i], extractCalls[i], validateCalls[i], handlerCalls[i]>>

\* C1: a request whose extraction succeeds and whose extracted value fails
\* validation never reaches the handler and is answered with BAD_REQUEST.
InvalidNeverReachesHandler ==
    \A i \in Requests :
        (inner[i] # NoValue /\ ~validate(route, DataOf(inner[i])).ok)
            => /\ handlerCalls[i] = 0
               /\ pc[i] = "done"
               /\ arg[i] = NoValue
               /\ response[i].status = BAD_REQUEST

InvalidRejected ==
    \E i \in Requests :
        /\ inner[i] # NoValue
        /\ ~validate(route, DataOf(inner[i])).ok
        /\ validateCalls[i] = 1
        /\ rejection[i].variant = "Valid"
        /\ response[i].status = BAD_REQUEST

\* C2: when extraction succeeds and the value satisfies validation, wrapping
\* succeeds and the handler is handed exactly the value the inner extractor
\* produces on its own.
ValidValueHandedUnchanged ==
    \A i \in Requests :
        (extractCalls[i] > 0 /\ Native(i).ok /\ validate(route, DataOf(Native(i).val)).ok)
            => /\ arg[i] = Valid(Native(i).val)
               /\ rejection[i] = NoRejection
               /\ (handlerCalls[i] > 0 => my_data[i] = DataOf(Native(i).val))

ValidValueHandled ==
    \E i \in Requests :
        /\ handlerCalls[i] = 1
        /\ Native(i).ok
        /\ my_data[i] = DataOf(Native(i).val)
        /\ my_data[i] \in {MyData(Hello), Parameter(RANGE_MAX, Rep("a", LENGTH_MIN))}

\* C3: when the inner extractor fails, the rejection is the inner variant
\* carrying the extractor's rejection unchanged, and the response is the
\* extractor's own, not that of a validation failure.
ExtractionFailureKeepsNativeRejection ==
    \A i \in Requests :
        (extractCalls[i] > 0 /\ ~Native(i).ok)
            => /\ rejection[i] = ValidRejection_Inner(Native(i).err)
               /\ response[i] = NativeResponse(Native(i).err)
               /\ \A errors \in SUBSET {<<"content", "length">>, <<"v0", "range">>, <<"v1", "length">>} :
                      response[i] # ValidRejection_into_response(ValidRejection_Valid(errors))

ExtractionFailed ==
    \E i \in Requests :
        /\ extractCalls[i] = 1
        /\ ~Native(i).ok
        /\ rejection[i].variant = "Inner"
        /\ rejection[i].inner.tag \in {"InvalidJson", "FailedToDeserializeQueryString"}
        /\ pc[i] = "done"

\* C4: a value the handler obtains by destructuring the wrapper satisfies
\* validation, so the handler's own validate returns Ok: it answers OK, never
\* INTERNAL_SERVER_ERROR, and the documented assertion never fails.
HandlerValueSatisfiesValidation ==
    \A i \in Requests :
        /\ pc[i] = "handler" => validate(route, Destructure(route, arg[i])).ok
        /\ handlerCalls[i] > 0
               => /\ validate(route, my_data[i]).ok
                  /\ response[i] = Response(OK, "", "", {})
                  /\ response[i].status # INTERNAL_SERVER_ERROR
                  /\ response[i] # Panicked

HandlerRan ==
    \E i \in Requests :
        /\ handlerCalls[i] = 1
        /\ my_data[i] # NoValue
        /\ validate(route, my_data[i]).ok
        /\ response[i].status = OK

\* C5: extraction failure and validation failure are terminal: the inner
\* extractor and validate each run at most once per request, and after a
\* failure the request is done, nothing of it changes and its handler is
\* never called.
FailureIsTerminal ==
    /\ [](\A i \in Requests :
            /\ extractCalls[i] <= 1
            /\ validateCalls[i] <= 1
            /\ Failed(i) => (pc[i] = "done" /\ handlerCalls[i] = 0))
    /\ [][\A i \in Requests : Failed(i) => ReqState(i)' = ReqState(i)]_vars

FailedBoth ==
    \E i, j \in Requests :
        /\ Failed(i) /\ rejection[i].variant = "Inner" /\ validateCalls[i] = 0
        /\ Failed(j) /\ rejection[j].variant = "Valid" /\ validateCalls[j] = 1
        /\ pc[i] = "done" /\ pc[j] = "done"
\* Header values that are not JSON: {{} and an object cut short.
NotJson ==
    {<<LBrace, LBrace, RBrace>>, <<LBrace, Str(KeyContent), Colon, Str(Hello)>>}

ParseErrorMessage == "My-Data is not valid json string: "

\* C6: Valid<MyData> over the header inputs: JSON with a content of length
\* 1 to 10 reaches the handler and yields 200; an absent header yields 400
\* with the missing-header message; a header that is not JSON yields 400 with
\* the parse-error message; JSON with an empty or over-long content yields
\* 400 with a validation-error message, which is not the parse-error message.
CustomHeaderOutcomes ==
    \A i \in Requests :
        (route = "custom" /\ pc[i] = "done") =>
            LET h == parts[i].header
                r == response[i]
            IN  /\ (\/ \E c \in Contents :
                          Len(c) >= 1 /\ Len(c) <= 10 /\ h = Header(to_string(MyData(c)))
                    \/ h = Header(WithOtherField))
                     => (handlerCalls[i] = 1 /\ r = Response(200, "", "", {}))
                /\ ~h.present
                     => (handlerCalls[i] = 0
                         /\ r = Response(400, "My-Data header is missing", "", {}))
                /\ (h.present /\ h.value \in NotJson)
                     => (handlerCalls[i] = 0 /\ r.status = 400
                         /\ r.msg = ParseErrorMessage /\ r.e # "" /\ r.errors = {})
                /\ (\E c \in Contents :
                        (Len(c) = 0 \/ Len(c) > 10) /\ h = Header(to_string(MyData(c))))
                     => (handlerCalls[i] = 0 /\ r.status = 400
                         /\ r.msg # ParseErrorMessage /\ r.e = ""
                         /\ r.errors = {<<"content", "length">>})

CustomOkAndValidationError ==
    /\ route = "custom"
    /\ \E i \in Requests :
          /\ pc[i] = "done"
          /\ parts[i].header = Header(to_string(MyData(Rep("a", LENGTH_MAX))))
          /\ response[i].status = OK
    /\ \E i \in Requests :
          /\ pc[i] = "done"
          /\ parts[i].header.present
          /\ response[i].status = BAD_REQUEST
          /\ response[i].errors # {}

AloneOutcome(r, p) ==
    LET e == from_request_parts(r, p)
    IN  IF ~e.ok THEN ValidRejection_into_response(from(e.err))
        ELSE LET v == validate(r, get_validate(r, e.val))
             IN  IF ~v.ok THEN ValidRejection_into_response(ValidRejection_Valid(v.err))
                 ELSE IF r = "custom" THEN MyData_handler(Destructure(r, Valid(e.val)))
                 ELSE Query_handler(Destructure(r, Valid(e.val)))

\* C8: under every interleaving each request gets the outcome it has alone;
\* a step of one request changes nothing of another; the wrapper is only
\* ever suspended awaiting the inner extractor, validation and the
\* construction of the wrapper or the rejection being one step with the
\* extractor's result.
ConcurrentRequestsIndependent ==
    /\ [](\A i \in Requests :
            /\ pc[i] = "done" => response[i] = AloneOutcome(route, parts[i])
            /\ inner[i] # NoValue => (arg[i] # NoValue \/ rejection[i].variant = "Valid")
            /\ pc[i] = "extract" => (inner[i] = NoValue /\ validateCalls[i] = 0))
    /\ [][\A i, j \in Requests :
            (i # j /\ ReqState(i)' # ReqState(i)) => ReqState(j)' = ReqState(j)]_vars
    /\ [][\A i \in Requests :
            validateCalls'[i] # validateCalls[i]
                => \/ arg'[i] = Valid(inner'[i]) /\ pc'[i] = "handler"
                   \/ rejection'[i].variant = "Valid" /\ pc'[i] = "done"]_vars

Interleaved ==
    \E i, j \in Requests :
        /\ i # j
        /\ pc[i] = "handler" /\ pc[j] = "done"
        /\ parts[i] # parts[j]
        /\ response[j] = AloneOutcome(route, parts[j])
        /\ response[j].status = OK

\* C9: within a request validate is called only with the inner extractor's
\* successful result, on the value that extractor returned; the handler is
\* called only in a later step, after validation of that same value
\* succeeded; validate never runs when extraction failed.
StepsInOrder ==
    [][\A i \in Requests :
        /\ validateCalls'[i] # validateCalls[i]
              => /\ extractCalls'[i] = 1
                 /\ Native(i).ok
                 /\ inner'[i] = Native(i).val
                 /\ validated'[i] = DataOf(inner'[i])
                 /\ handlerCalls'[i] = 0
        /\ handlerCalls'[i] # handlerCalls[i]
              => /\ validateCalls[i] = 1
                 /\ validate(route, validated[i]).ok
                 /\ my_data'[i] = validated[i]
                 /\ validated[i] = DataOf(inner[i])
        /\ (extractCalls'[i] # extractCalls[i] /\ ~Native(i).ok)
              => (validateCalls'[i] = 0 /\ validated'[i] = NoValue)]_vars

AllStepsTaken ==
    \E i, j \in Requests :
        /\ handlerCalls[i] = 1 /\ validateCalls[i] = 1 /\ extractCalls[i] = 1
        /\ my_data[i] = validated[i]
        /\ extractCalls[j] = 1 /\ validateCalls[j] = 0 /\ pc[j] = "done"

\* C10: the accessors are pure projections: get_validate and, for Query<T>,
\* get_validate_args return the one wrapped field (for MyData the value
\* itself), and a call changes nothing but the reference it returns.
AccessorsArePureProjections ==
    [][\A i \in Requests :
        (refs'[i] # refs[i] /\ refs'[i] # NoRefs)
            => /\ refs'[i].v = DataOf(arg[i].field0)
               /\ route = "query" => (refs'[i].args = arg[i].field0.field0
                                      /\ refs'[i].args = refs'[i].v)
               /\ route = "custom" => refs'[i].v = arg[i].field0
               /\ UNCHANGED <<route, pc, parts, inner, validated, arg, my_data,
                              rejection, response, extractCalls, validateCalls,
                              handlerCalls>>
               /\ \A j \in Requests \ {i} : refs'[j] = refs[j]]_vars

Borrowed ==
    \E i, j \in Requests :
        /\ route = "query"
        /\ refs[i] # NoRefs
        /\ refs[i].args = refs[i].v
        /\ refs[i].v = arg[i].field0.field0
        /\ refs[j] = NoRefs /\ pc[j] = "handler"
====
